---- MODULE Spec2Model ----
(***************************************************************************)
(* Sandboxed execution subsystem of koala-app (backend/code_executor.py,   *)
(* backend/subprocess_executor.py, backend/main.py): code validation, the  *)
(* generated program, the two execution backends and result collection.    *)
(***************************************************************************)
EXTENDS Integers, Sequences, FiniteSets, TLC

VARIABLES
    code_executor,  \* main.py: the executor chosen at startup
    pc,             \* position of the host inside execute_code / its caller
    call,           \* arguments of the call in progress
    ws,             \* workspace (temporary directory) of the call, 0 = none
    fs,             \* workspace id -> contents of that temporary directory
    proc,           \* the OS process spawned by the host (docker CLI or python child)
    container,      \* the sandbox container (Container backend only)
    prog,           \* execution state of the generated program
    pending,        \* value or exception leaving the `with` block
    returns,        \* outcome tuples returned by the call in progress
    raised,         \* an exception propagated out of the call in progress
    leaked,         \* a container of an earlier call was still running when it was left
    vin,            \* input of a validate_code call
    vout,           \* result of that validate_code call
    uploads,        \* the shared uploads directory: relative path -> content
    probe,          \* main.py: how the `docker --version` probe at startup ended
    other,          \* a second execute_code call on the same executor instance
    launch          \* how the process of the call is started: docker_cmd, or Popen's
                    \* env, cwd and the limits its preexec_fn sets

hostVars  == <<code_executor, pc, call, ws, fs, proc, container, prog,
               pending, returns, raised, leaked, uploads, probe, other, launch>>
valVars   == <<vin, vout,
                   uploads, probe, other, launch>>
vars      == <<code_executor, pc, call, ws, fs, proc, container, prog,
               pending, returns, raised, leaked, vin, vout, uploads, probe, other, launch>>

----------------------------------------------------------------------------
(* Bounds *)

MaxLines == 2       \* lines of user code per request
MaxWs == 2          \* temporary-directory names mkdtemp can draw from
MaxBindings == 2    \* entries of data_files handed to _wrap_code

----------------------------------------------------------------------------
(* Strings *)

Contains(s, p) ==   \* Python `p in s`
    \E i \in 1..(Len(s) - Len(p) + 1) : SubSeq(s, i, i + Len(p) - 1) = p

StartsWith(s, p) == Len(s) >= Len(p) /\ SubSeq(s, 1, Len(p)) = p

UpperChars == "ABCDEFGHIJKLMNOPQRSTUVWXYZ"
LowerChars == "abcdefghijklmnopqrstuvwxyz"

LowerChar(c) ==
    IF \E k \in 1..Len(UpperChars) : SubSeq(UpperChars, k, k) = c
    THEN LET k == CHOOSE j \in 1..Len(UpperChars) : SubSeq(UpperChars, j, j) = c
         IN  SubSeq(LowerChars, k, k)
    ELSE c

RECURSIVE Lower(_)
Lower(s) ==         \* Python str.lower(); v is s, evaluated once
    CHOOSE r \in { IF Len(v) = 0 THEN ""
                   ELSE IF Len(v) = 1 THEN LowerChar(v)
                   ELSE LET h == Len(v) \div 2
                        IN  Lower(SubSeq(v, 1, h)) \o Lower(SubSeq(v, h + 1, Len(v)))
                   : v \in {s} } : TRUE

CountChar(s, c) == Cardinality({ i \in 1..Len(s) : SubSeq(s, i, i) = c })

RECURSIVE Join(_)
Join(lines) ==      \* Python '\n'.join(lines); v is lines, evaluated once
    CHOOSE r \in { IF Len(v) = 0 THEN ""
                   ELSE IF Len(v) = 1 THEN v[1]
                   ELSE v[1] \o "\n" \o Join(Tail(v))
                   : v \in {lines} } : TRUE

Split(s) ==          \* Python s.split('\n')
    LET nl == { i \in 1..Len(s) : SubSeq(s, i, i) = "\n" }
        cut == [k \in 0..(Cardinality(nl) + 1) |->
                   IF k = 0 THEN 0
                   ELSE IF k = Cardinality(nl) + 1 THEN Len(s) + 1
                   ELSE CHOOSE i \in nl : Cardinality({ j \in nl : j < i }) = k - 1]
    IN  [k \in 1..(Cardinality(nl) + 1) |-> SubSeq(s, cut[k - 1] + 1, cut[k] - 1)]

----------------------------------------------------------------------------
(* User code the requests are drawn from *)

Statements == {
    "x = 5",
    "y = 1/0",
    "while True: pass",
    "print('healthy')",
    "E = EVAL('1')",
    "x = (",
    "f = open(",
    "os._exit(0)",
    "var_name = var_value = 0",
    "open('/sandbox/output/result.json','w').write('{')",
    "open('/app/uploads/a.csv','w').write('')" }

Codes == { Join(ls) : ls \in UNION { [1..n -> Statements] : n \in 0..MaxLines } }

\* data_files: a dict, as the sequence of its (variable name, file path) items
Binding(n, path) == [name |-> n, path |-> path]

\* Files a request may name, under the uploads directory or not there at all
BoundFiles == { <<Binding("df", "a.csv")>>, <<Binding("df", "gone.csv")>>,
                <<Binding("notes", "notes.txt")>>, <<Binding("df", "uploads/a.csv")>> }
BoundCodes == { "x = 5", "var_name = var_value = 0" }

\* Programs that get through the Container wrapper's capture loop and leave a
\* large value or open figures, and programs that leave through sys.exit
CaptureCodes == {
    "var_name = var_value = 0\nbig = [0] * 5000",
    "var_name = var_value = 0\nplt.figure()",
    "var_name = var_value = 0\n[plt.figure() for k in range(6)]",
    "sys.exit(0)",
    "sys.exit = print\ny = 1/0" }

Requests ==
    { [code |-> c, data_files |-> <<>>] : c \in Codes \cup CaptureCodes }
    \cup { [code |-> c, data_files |-> d] : c \in BoundCodes, d \in BoundFiles }

\* Requests of the calls that run side by side
ConcurrentCodes ==
    BoundCodes \cup { "open('/sandbox/output/result.json','w').write('{')",
                      "open('/app/uploads/a.csv','w').write('')" }
ConcurrentRequests == { [code |-> c, data_files |-> <<>>] : c \in ConcurrentCodes }

\* data_files _wrap_code is applied to
VarNames == {"df", "t", "u"}
FilePaths == {"a.csv", "b.CSV", "c.xlsx", "d.XLS", "e.txt", "f", "g.csv.bak"}
DataFiles ==
    { d \in UNION { [1..n -> { Binding(v, f) : v \in VarNames, f \in FilePaths }] :
                      n \in 0..MaxBindings } :
        \A i, j \in 1..Len(d) : i # j => d[i].name # d[j].name }

----------------------------------------------------------------------------
(* validate_code *)

DockerForbidden == <<
    "import os", "import subprocess", "import sys", "import socket",
    "__import__", "eval(", "exec(", "compile(", "open(", "file(", "input(",
    "raw_input(", "globals(", "locals(", "vars(", "dir(" >>

SubprocessForbidden == <<
    "__import__", "eval", "exec", "compile", "open", "file", "input",
    "raw_input", "globals", "locals", "vars", "getattr", "setattr", "delattr",
    "hasattr", "__dict__", "__class__", "__base__", "__subclasses__", "mro",
    "__code__", "__closure__", "__func__", "__self__", "__module__",
    "__builtins__" >>

\* compile(code, '<string>', 'exec'): the statements requests are drawn from
\* are complete one-line statements except where a bracket is left open.
Compile(code) ==
    IF CountChar(code, "(") = CountChar(code, ")") THEN "ok" ELSE "SyntaxError"

Valid == [ok |-> TRUE, kind |-> "None", detail |-> ""]
Forbidden(p) == [ok |-> FALSE, kind |-> "Forbidden pattern detected: ", detail |-> p]
SyntaxErr == [ok |-> FALSE, kind |-> "Syntax error: ", detail |-> "SyntaxError"]

DockerMatches(code) ==
    { k \in 1..Len(DockerForbidden) : Contains(Lower(code), Lower(DockerForbidden[k])) }

\* Mutant: the syntax check comes first and the pattern scan only for code that parses.
DockerValidateSyntaxFirst(code) ==
    IF Compile(code) # "ok" THEN SyntaxErr
    ELSE IF DockerMatches(code) # {}
         THEN Forbidden(DockerForbidden[CHOOSE k \in DockerMatches(code) : TRUE])
         ELSE Valid

DockerValidate(code) ==         \* CodeExecutor.validate_code
    IF DockerMatches(code) # {}
    THEN Forbidden(DockerForbidden[CHOOSE k \in DockerMatches(code) :
                                     \A j \in DockerMatches(code) : k <= j])
    ELSE IF Compile(code) = "ok" THEN Valid ELSE SyntaxErr

SubprocessMatches(code) ==
    { k \in 1..Len(SubprocessForbidden) : Contains(code, SubprocessForbidden[k]) }

\* Mutant: the SyntaxError is swallowed and the code passes.
SubprocessValidateSwallows(code) ==
    IF SubprocessMatches(code) # {}
    THEN Forbidden(SubprocessForbidden[CHOOSE k \in SubprocessMatches(code) :
                                         \A j \in SubprocessMatches(code) : k <= j])
    ELSE Valid

SubprocessValidate(code) ==     \* SubprocessExecutor.validate_code
    IF SubprocessMatches(code) # {}
    THEN Forbidden(SubprocessForbidden[CHOOSE k \in SubprocessMatches(code) :
                                         \A j \in SubprocessMatches(code) : k <= j])
    ELSE IF Compile(code) = "ok" THEN Valid ELSE SyntaxErr

validate_code(b, code) ==
    IF b = "docker" THEN DockerValidate(code) ELSE SubprocessValidate(code)

Backends == {"docker", "subprocess"}

----------------------------------------------------------------------------
(* The generated program (the text _wrap_code builds), by its sections *)

Indent(user_code) ==    \* '\n'.join('    ' + line for line in user_code.split('\n'))
    LET lines == Split(user_code)
    IN  Join([k \in 1..Len(lines) |-> "    " \o lines[k]])

\* pathlib
LastIndex(s, c) ==      \* s.rfind(c) + 1
    LET I == { i \in 1..Len(s) : SubSeq(s, i, i) = c }
    IN  IF I = {} THEN 0 ELSE CHOOSE i \in I : \A j \in I : j <= i

PathName(path) == SubSeq(path, LastIndex(path, "/") + 1, Len(path))     \* Path(path).name

Suffix(path) ==         \* Path(path).suffix
    LET name == PathName(path)
        i == LastIndex(name, ".")
    IN  IF 1 < i /\ i < Len(name) THEN SubSeq(name, i, Len(name)) ELSE ""

UploadsDir == "uploads/"    \* self.uploads_dir = Path("uploads")

PathJoin(dir, path) == IF StartsWith(path, "/") THEN path ELSE dir \o path   \* dir / path

\* Mutant: the extension is compared as it is written.
FileExtAsWritten(path) == Suffix(path)

FileExt(path) == Lower(Suffix(path))    \* Path(file_path).suffix.lower()

Reader(file_ext) ==
    IF file_ext = ".csv" THEN "read_csv"
    ELSE IF file_ext \in {".xlsx", ".xls"} THEN "read_excel"
    ELSE "none"

LoadText(l) == l.var \o " = pd." \o l.reader \o "('" \o l.path \o "')"

DockerLoads(data_files) ==
    LET each == [k \in 1..Len(data_files) |->
                    [var    |-> data_files[k].name,
                     reader |-> Reader(FileExt(data_files[k].path)),
                     path   |-> "/sandbox/workspace/" \o PathName(data_files[k].path)]]
    IN  SelectSeq(each, LAMBDA l : l.reader # "none")

SubprocessLoads(data_files) ==
    LET each == [k \in 1..Len(data_files) |->
                    [var    |-> data_files[k].name,
                     reader |-> Reader(FileExt(data_files[k].path)),
                     path   |-> PathJoin(UploadsDir, data_files[k].path)]]
    IN  SelectSeq(each, LAMBDA l : l.reader # "none")

Texts(loads) == [k \in 1..Len(loads) |-> LoadText(loads[k])]

DockerWrapCode(user_code, data_files) ==        \* CodeExecutor._wrap_code
    [ fmt       |-> "python",
      hardening |-> FALSE,
      makedirs  |-> {"/sandbox/output/plots"},
      loads     |-> DockerLoads(data_files),
      body      |-> Indent(user_code),
      snapshot  |-> FALSE,                  \* for ... in locals().items()
      bounded   |-> FALSE,                  \* to_dict('records'); list, dict as they are
      plots     |-> [path |-> "/sandbox/output/plots/figure_", capped |-> FALSE,
                     listed |-> FALSE],
      libs      |-> {},
      result    |-> "/sandbox/output/result.json",
      text      |-> <<"import ...", "os.makedirs('/sandbox/output/plots', exist_ok=True)">>
                    \o Texts(DockerLoads(data_files))
                    \o <<"__result = {}", "try:", Indent(user_code),
                          "    for var_name, var_value in locals().items(): ...",
                          "    json.dump(__result, f, indent=2)",
                          "except Exception as e: ...">> ]

SubprocessWrapCode(user_code, data_files) ==    \* SubprocessExecutor._wrap_code
    [ fmt       |-> "python",
      hardening |-> TRUE,
      makedirs  |-> {},
      loads     |-> SubprocessLoads(data_files),
      body      |-> Indent(user_code),
      snapshot  |-> TRUE,                   \* for ... in list(locals().items())
      bounded   |-> TRUE,                   \* head(1000); len(str(var_value)) < 10000
      plots     |-> [path |-> "plot_", capped |-> TRUE, listed |-> TRUE],
      libs      |-> {"pd", "np", "plt", "json", "matplotlib"},
      result    |-> "result.json",
      text      |-> <<"import sys, os", "for module in dangerous_modules: ...",
                      "for name in dir(builtins): ...", "import ...">>
                    \o Texts(SubprocessLoads(data_files))
                    \o <<"__result = {}", "try:", Indent(user_code),
                          "    for var_name, var_value in list(locals().items()): ...",
                          "    json.dump(__result, f, indent=2)",
                          "except Exception as e: ...">> ]

wrap_code(b, user_code, data_files) ==
    IF b = "docker" THEN DockerWrapCode(user_code, data_files)
    ELSE SubprocessWrapCode(user_code, data_files)

\* dir(builtins), which is sorted: the names the hardening loop visits
DirBuiltins == <<
    "Exception", "ImportError", "__build_class__", "__import__", "__name__",
    "abs", "delattr", "dict", "dir", "eval", "exec", "getattr", "globals",
    "input", "int", "len", "open", "print", "setattr" >>

AllBuiltins == { DirBuiltins[k] : k \in 1..Len(DirBuiltins) }

SafeBuiltins == {
    "abs", "all", "any", "ascii", "bin", "bool", "bytearray", "bytes", "chr",
    "complex", "dict", "divmod", "enumerate", "filter", "float", "format",
    "frozenset", "hash", "hex", "int", "isinstance", "issubclass", "iter",
    "len", "list", "map", "max", "min", "next", "object", "oct", "ord", "pow",
    "print", "range", "repr", "reversed", "round", "set", "slice", "sorted",
    "str", "sum", "tuple", "type", "zip", "False", "None", "True",
    "__name__", "__doc__" }

\* for name in dir(builtins): if name not in safe_builtins:
\*     try: delattr(builtins, name)  except: pass
\* `delattr` is itself looked up in builtins on every call.
RECURSIVE HardenFrom(_, _)
HardenFrom(k, bs) ==
    IF k > Len(DirBuiltins) THEN bs
    ELSE IF DirBuiltins[k] \notin SafeBuiltins /\ "delattr" \in bs
         THEN HardenFrom(k + 1, bs \ {DirBuiltins[k]})
         ELSE HardenFrom(k + 1, bs)

\* Mutant: the generated program leaves the builtins as they are.
HardenNothing(bs) == bs

Harden(bs) == HardenFrom(1, bs)

\* Values of the program, by type; data: the value as json.dump writes it
Module == [type |-> "module", data |-> "module"]
IntVal(i) == [type |-> "int", data |-> ToString(i)]
Str(s) == [type |-> "str", data |-> s]
Zeros(n) ==                     \* [0] * n; chars: len(str(value))
    [type |-> "list", data |-> "[0] * " \o ToString(n), chars |-> 3 * n]

\* What the uploads directory holds
Csv == [fmt |-> "csv", rows |-> 1500]

DataFrame(path) == [type |-> "DataFrame", data |-> path, rows |-> Csv.rows]

\* What one statement of the user code does when it is run.
Effect(stmt) ==
    CASE stmt = "x = 5"            -> [op |-> "assign", vars |-> <<"x">>,
                                       val |-> IntVal(5)]
      [] stmt = "var_name = var_value = 0"
                                   -> [op |-> "assign", vars |-> <<"var_name", "var_value">>,
                                       val |-> IntVal(0)]
      [] stmt = "big = [0] * 5000" -> [op |-> "assign", vars |-> <<"big">>,
                                       val |-> Zeros(5000)]
      [] stmt = "plt.figure()"     -> [op |-> "figure", n |-> 1]
      [] stmt = "[plt.figure() for k in range(6)]"
                                   -> [op |-> "figure", n |-> 6]
      [] stmt = "sys.exit(0)"      -> [op |-> "SystemExit", code |-> 0]
      [] stmt = "sys.exit = print" -> [op |-> "patch"]
      [] stmt = "y = 1/0"          -> [op |-> "raise", msg |-> "division by zero"]
      [] stmt = "while True: pass" -> [op |-> "loop"]
      [] stmt = "print('healthy')" -> [op |-> "print", text |-> "healthy\n"]
      [] stmt = "E = EVAL('1')"    -> [op |-> "raise", msg |-> "name 'EVAL' is not defined"]
      [] stmt = "os._exit(0)"      -> [op |-> "exit"]
      [] stmt = "open('/sandbox/output/result.json','w').write('{')"
                                   -> [op |-> "scribble", path |-> "/sandbox/output/result.json",
                                       msg |-> "No such file or directory"]
      [] stmt = "open('/app/uploads/a.csv','w').write('')"
                                   -> [op |-> "scribble", path |-> "/app/uploads/a.csv",
                                       msg |-> "Read-only file system"]
      [] OTHER                     -> [op |-> "pass"]

Dedent(line) == SubSeq(line, 5, Len(line))

NoProg == [ppc |-> "none"]

\* The module namespace is a dict: bindings in insertion order.

Names(ns) == { ns[k].name : k \in 1..Len(ns) }
Lookup(ns, n) == ns[CHOOSE k \in 1..Len(ns) : ns[k].name = n].val

Bind(ns, n, v) ==       \* ns[n] = v
    IF n \in Names(ns)
    THEN [k \in 1..Len(ns) |-> IF ns[k].name = n THEN [name |-> n, val |-> v] ELSE ns[k]]
    ELSE Append(ns, [name |-> n, val |-> v])

RECURSIVE BindAll(_, _, _)
BindAll(ns, names, v) ==
    IF Len(names) = 0 THEN ns ELSE BindAll(Bind(ns, Head(names), v), Tail(names), v)

\* What the wrapper has bound when the try block is entered.
Modules(names) == [k \in 1..Len(names) |-> [name |-> names[k], val |-> Module]]

WrapperGlobals(program) ==
    <<[name |-> "__name__", val |-> Str("__main__")]>>
    \o (IF program.hardening
        THEN Modules(<<"sys", "os">>)
             \o << [name |-> "dangerous_modules",
                    val |-> [type |-> "list", data |-> "modules", chars |-> 290]],
                   [name |-> "module", val |-> Str("setuptools")],
                   [name |-> "safe_builtins",
                    val |-> [type |-> "dict", data |-> "builtins", chars |-> 1507]] >>
             \o Modules(<<"builtins">>)
             \o << [name |-> "name", val |-> Str("zip")] >>
             \o Modules(<<"pd", "np", "matplotlib", "plt", "json">>)
        ELSE Modules(<<"pd", "np", "matplotlib", "plt", "json", "sys", "os">>))
    \o [k \in 1..Len(program.loads) |->
           [name |-> program.loads[k].var, val |-> DataFrame(program.loads[k].path)]]
    \o <<[name |-> "__result", val |-> [type |-> "dict", data |-> "results", chars |-> 2]]>>

StartProg(program) ==
    [ ppc |-> "start", program |-> program, lines |-> Split(program.body), i |-> 1,
      builtins |-> AllBuiltins, ns |-> WrapperGlobals(program), result |-> <<>>,
      figs |-> 0, exits |-> TRUE,
      exc |-> "", out |-> "", err |-> "", rc |-> -1 ]

Traceback(msg) == "Traceback (most recent call last): " \o msg

ErrorEnvelope(msg) ==
    [fmt |-> "json",
     doc |-> [__error |-> [error |-> msg, traceback |-> Traceback(msg)]]]

\* `for var_name, var_value in locals().items()` at module level binds two new
\* names while the dictionary is being iterated, unless both exist already.
CaptureRaises(program, ns) ==
    ~program.snapshot /\ ~({"var_name", "var_value"} \subseteq Names(ns))

RowBound == 1000        \* head(1000)
CharBound == 10000      \* len(str(var_value)) < 10000

Kept(program, n, v) ==
    /\ ~StartsWith(n, "_")
    /\ n \notin program.libs
    /\ v.type \in {"DataFrame", "int", "float", "str", "bool", "list", "dict"}
    /\ (program.bounded /\ v.type \in {"list", "dict"}) => v.chars < CharBound

\* One entry of __result
Captured(program, v) ==
    IF v.type = "DataFrame"
    THEN [type |-> "dataframe", data |-> v.data,
          records |-> IF program.bounded /\ v.rows > RowBound THEN RowBound ELSE v.rows,
          shape |-> v.rows]
    ELSE IF v.type \in {"list", "dict"}
    THEN [type |-> v.type, data |-> v.data, chars |-> v.chars]
    ELSE [type |-> v.type, data |-> v.data]

\* The value the loop fetches for the k-th binding. Over the live dict the
\* loop's own assignments show: var_name holds the key of the iteration before
\* and var_value the value fetched in it.
Fetched(program, ns) ==
    LET V[k \in 1..Len(ns)] ==
            IF program.snapshot \/ k = 1 THEN ns[k].val
            ELSE IF ns[k].name = "var_name" THEN Str(ns[k - 1].name)
            ELSE IF ns[k].name = "var_value" THEN V[k - 1]
            ELSE ns[k].val
    IN  V

\* The capture loop: __result when it ends
Capture(program, ns) ==
    LET V == Fetched(program, ns)
        K == { k \in 1..Len(ns) : Kept(program, ns[k].name, V[k]) }
    IN  [ n \in { ns[k].name : k \in K } |->
            LET k == CHOOSE j \in K : ns[j].name = n
            IN  Captured(program, V[k]) ]

----------------------------------------------------------------------------
(* Host side: outcome tuples (success, text, result_data) *)

Timeout == 30

WsIds == 1..MaxWs
NoDir == [exists |-> FALSE]
EmptyDir == [exists |-> TRUE, files |-> <<>>]       \* files: relative path -> content
Dir == [fmt |-> "dir"]

Put(dir, path, content) ==
    [dir EXCEPT !.files = (path :> content) @@ dir.files]

Absent == [fmt |-> "absent"]
Read(dir, path) == IF path \in DOMAIN dir.files THEN dir.files[path] ELSE Absent
NoProc == [st |-> "none", rc |-> -1, out |-> "", err |-> ""]
NoOther == [pc |-> "none"]
NoLaunch == [by |-> "none"]

\* main.py upload_file: the name a file is stored under, and its row
StoredFilename(project_id, file_id, filename) ==
    project_id \o "_" \o file_id \o "_" \o filename

FileModel(project_id, file_id, filename) ==
    [ original_filename |-> filename,
      file_path |-> PathJoin(UploadsDir, StoredFilename(project_id, file_id, filename)) ]

\* Names clients have uploaded files under; upload_file takes any name whose
\* suffix is .csv, .xlsx or .xls
UploadedNames ==
    {"sales.csv", "2024 sales.csv", "my-data.csv", "my data.csv", "my.data.csv",
     "a=1;b.csv", "class.csv", "o'neil.csv"}

InitialUploads ==
    ("a.csv" :> Csv)
    @@ [ n \in { StoredFilename("p1", "f1", o) : o \in UploadedNames } |-> Csv ]

\* project.files of the projects a request may name; the file of "old.csv" has
\* been removed from the disk since its upload
ProjectFiles == {
    <<>>,
    <<FileModel("p1", "f1", "sales.csv")>>,
    <<FileModel("p1", "f1", "2024 sales.csv")>>,
    <<FileModel("p1", "f1", "my-data.csv"), FileModel("p1", "f1", "my data.csv")>>,
    <<FileModel("p1", "f1", "my.data.csv")>>,
    <<FileModel("p1", "f1", "a=1;b.csv")>>,
    <<FileModel("p1", "f1", "o'neil.csv")>>,
    <<FileModel("p1", "f1", "class.csv"), FileModel("p1", "f2", "old.csv")>> }

Stem(filename) ==       \* filename.rsplit('.', 1)[0]
    LET i == LastIndex(filename, ".")
    IN  IF i = 0 THEN filename ELSE SubSeq(filename, 1, i - 1)

RECURSIVE Replace(_, _, _)
Replace(s, old, new) ==     \* s.replace(old, new), old one character; v is s, evaluated once
    CHOOSE r \in { IF Len(v) = 0 THEN ""
                   ELSE IF Len(v) = 1 THEN (IF v = old THEN new ELSE v)
                   ELSE LET h == Len(v) \div 2
                        IN  Replace(SubSeq(v, 1, h), old, new)
                            \o Replace(SubSeq(v, h + 1, Len(v)), old, new)
                   : v \in {s} } : TRUE

\* var_name = file.original_filename.rsplit('.', 1)[0].replace('-', '_').replace(' ', '_')
VarName(original_filename) == Replace(Replace(Stem(original_filename), "-", "_"), " ", "_")

\* data_files[var_name] = file_path: a dict keeps the place of a key it already has
DictSet(data_files, var_name, file_path) ==
    IF \E k \in 1..Len(data_files) : data_files[k].name = var_name
    THEN [k \in 1..Len(data_files) |->
             IF data_files[k].name = var_name THEN Binding(var_name, file_path)
             ELSE data_files[k]]
    ELSE Append(data_files, Binding(var_name, file_path))

\* Path(file_path).exists(), in the directory the service runs in
PathExists(file_path, up) ==
    StartsWith(file_path, UploadsDir)
    /\ SubSeq(file_path, Len(UploadsDir) + 1, Len(file_path)) \in DOMAIN up

\* execute_code_internal: for file in files: if file.file_path and
\* Path(file.file_path).exists(): data_files[var_name] = file.file_path
RECURSIVE PrepareDataFiles(_, _, _)
PrepareDataFiles(files, up, data_files) ==
    IF Len(files) = 0 THEN data_files
    ELSE LET file == Head(files)
         IN  PrepareDataFiles(Tail(files), up,
                 IF file.file_path # "" /\ PathExists(file.file_path, up)
                 THEN DictSet(data_files, VarName(file.original_filename), file.file_path)
                 ELSE data_files)
NoCall == [via |-> "none", code |-> "", data_files |-> <<>>]

Outcome(success, text, data) ==
    [tag |-> "tuple", success |-> success, text |-> text, data |-> data]
Exc(name) == [tag |-> "exception", name |-> name]
Nothing == [tag |-> "none"]
None == [type |-> "NoneType"]

\* Mutant: the timeout is reported as a run that succeeded without output.
TimeoutOutcomeSucceeds == Outcome(TRUE, "", None)

TimeoutOutcome ==       \* except subprocess.TimeoutExpired
    Outcome(FALSE, "Code execution timed out after " \o ToString(Timeout) \o " seconds",
            None)

InternalError(e) ==     \* except Exception as e
    Outcome(FALSE, "Internal error: " \o e.name, None)

JsonLoads(content) ==   \* json.loads(result_file.read_text())
    IF content.fmt = "json" THEN [ok |-> TRUE, value |-> content.doc]
    ELSE [ok |-> FALSE, value |-> Exc("JSONDecodeError")]

\* Mutant: the result file decides, whatever the exit status.
CollectOutcomeIgnoresExit(p, result_file) ==
    IF result_file # Absent
    THEN LET result_data == JsonLoads(result_file)
         IN  IF ~result_data.ok THEN result_data.value
             ELSE Outcome(TRUE, p.out, result_data.value)
    ELSE Outcome(TRUE, p.out, None)

\* The branches after the spawned process has ended on its own.
CollectOutcome(p, result_file) ==
    IF p.rc # 0 THEN Outcome(FALSE, "Execution error: " \o p.err, None)
    ELSE IF result_file # Absent
         THEN LET result_data == JsonLoads(result_file)
              IN  IF ~result_data.ok THEN result_data.value
                  ELSE Outcome(TRUE, p.out, result_data.value)
         ELSE Outcome(TRUE, p.out, None)

\* Mutant: mkdtemp without the context manager; nothing removes the directory.
CleanupKeeps(files, id) == files

\* tempfile.TemporaryDirectory().__exit__: the directory and all in it are removed
Cleanup(files, id) == [files EXCEPT ![id] = NoDir]

\* Mutant: the timeout handler returns without process.kill().
KillOnTimeoutSkipped(p) == p

\* What is left of the spawned process after the timeout handler has run.
KillOnTimeout(p) == [p EXCEPT !.st = "killed"]

----------------------------------------------------------------------------
(* Host actions *)

Init ==
    /\ code_executor = "None"
    /\ pc = "startup"
    /\ call = NoCall
    /\ ws = 0
    /\ fs = [id \in WsIds |-> NoDir]
    /\ proc = NoProc
    /\ container = "none"
    /\ prog = NoProg
    /\ pending = Nothing
    /\ returns = <<>>
    /\ raised = FALSE
    /\ leaked = FALSE
    /\ uploads = InitialUploads
    /\ probe = "none"
    /\ other = NoOther
    /\ launch = NoLaunch
    /\ vin = Nothing
    /\ vout = Nothing

\* subprocess.run(['docker', '--version']): exit status 0, another exit
\* status, or an exception (no docker binary)
ProbeResults == {"rc0", "nonzero", "raises"}

\* Mutant: only `raise Exception("Docker not available")` is caught.
SelectExecutorNarrowExcept(result) ==
    IF result = "rc0" THEN "docker"
    ELSE IF result = "nonzero" THEN "subprocess" ELSE "None"

\* try: ... CodeExecutor() ... except: SubprocessExecutor()
SelectExecutor(result) == IF result = "rc0" THEN "docker" ELSE "subprocess"

\* main.py: probe `docker --version`, fall back to the subprocess executor
Startup ==
    /\ pc = "startup"
    /\ \E result \in ProbeResults :
          /\ probe' = result
          /\ code_executor' = SelectExecutor(result)
    /\ pc' = "idle"
    /\ UNCHANGED <<call, ws, fs, proc, container, prog, pending, returns, raised,
                   leaked, vin, vout, uploads, other, launch>>

Between == pc = "idle"

\* The caller has its answer and the service waits for the next request. A
\* container of the call that is still running is no longer followed.
NextRequest ==
    /\ pc \in {"returned", "failed"}
    /\ pc' = "idle"
    /\ call' = NoCall
    /\ leaked' = (leaked \/ container = "running")
    /\ container' = "none"
    /\ proc' = NoProc
    /\ prog' = NoProg
    /\ ws' = 0
    /\ pending' = Nothing
    /\ returns' = <<>>
    /\ raised' = FALSE
    /\ launch' = NoLaunch
    /\ UNCHANGED <<code_executor, fs, vin, vout,
                   uploads, probe, other>>

\* main.py execute_code_internal: the bindings are made from the files of the
\* project; code_executor.execute(...) is no method of either executor class
\* and the AttributeError becomes an HTTP 500.
ExecuteCodeInternal ==
    /\ Between
    /\ \E r \in Requests, files \in ProjectFiles :
          call' = [via |-> "internal", code |-> r.code,
                   data_files |-> PrepareDataFiles(files, uploads, <<>>)]
    /\ pc' = "failed"
    /\ raised' = TRUE
    /\ UNCHANGED <<code_executor, ws, fs, proc, container, prog, pending, returns,
                   leaked, vin, vout,
                   uploads, probe, other, launch>>

\* What /api/execute/health answers
Healthy(b, output) ==
    [tag |-> "response", status |-> "healthy", executor_type |-> b, test_output |-> output]
Unhealthy(e) == [tag |-> "response", status |-> "unhealthy", error |-> e.name]

\* main.py execute_health: code_executor.execute("print('healthy')", {}) is no
\* method of either executor class either; the AttributeError is caught and
\* answered as unhealthy.
ExecuteHealth ==
    /\ Between
    /\ call' = [via |-> "health", code |-> "print('healthy')", data_files |-> <<>>]
    /\ returns' = <<Unhealthy(Exc("AttributeError"))>>
    /\ pc' = "returned"
    /\ UNCHANGED <<code_executor, ws, fs, proc, container, prog, pending, raised,
                   leaked, vin, vout, uploads, probe, other, launch>>

\* execute_code(code, data_files) called on the active executor
Execute(requests) ==
    /\ Between
    /\ \E r \in requests :
          call' = [via |-> "direct", code |-> r.code, data_files |-> r.data_files]
    /\ pc' = "mkdtemp"
    /\ UNCHANGED <<code_executor, ws, fs, proc, container, prog, pending, returns,
                   raised, leaked, vin, vout,
                   uploads, probe, other, launch>>

\* Mutant: one fixed working directory, created with exist_ok.
FreshOrNot(files, id) == TRUE

\* mkdtemp creates a directory under a name nothing has yet
Fresh(files, id) == ~files[id].exists

\* with tempfile.TemporaryDirectory() as temp_dir
EnterWith ==
    /\ pc = "mkdtemp"
    /\ \/ \E id \in WsIds :
            /\ Fresh(fs, id)
            /\ ws' = id
            /\ fs' = [fs EXCEPT ![id] = EmptyDir]
            /\ pc' = "wrap"
            /\ UNCHANGED pending
       \/ /\ pending' = Exc("OSError")
          /\ pc' = "except"
          /\ UNCHANGED <<ws, fs>>
    /\ UNCHANGED <<code_executor, call, proc, container, prog, returns, raised,
                   leaked, vin, vout,
                   uploads, probe, other, launch>>

\* wrapped_code = self._wrap_code(code, data_files); code_file.write_text(...)
WriteProgram ==
    /\ pc = "wrap"
    /\ fs' = [fs EXCEPT ![ws] = Put(@, "user_code.py",
                                     wrap_code(code_executor, call.code, call.data_files))]
    /\ pc' = IF code_executor = "docker" THEN "prepare" ELSE "spawn"
    /\ UNCHANGED <<code_executor, call, ws, proc, container, prog, pending, returns,
                   raised, leaked, vin, vout,
                   uploads, probe, other, launch>>

\* Where a path under the uploads directory is kept in `uploads`
UploadKey(src_path) ==
    IF StartsWith(src_path, UploadsDir)
    THEN SubSeq(src_path, Len(UploadsDir) + 1, Len(src_path))
    ELSE ""

\* for var_name, file_path in data_files.items(): cp src_path dest_path, if src_path.exists()
RECURSIVE CopyData(_, _, _)
CopyData(dir, data_files, up) ==
    IF Len(data_files) = 0 THEN dir
    ELSE LET file_path == Head(data_files).path
             src_path == PathJoin(UploadsDir, file_path)
         IN  CopyData(IF UploadKey(src_path) \in DOMAIN up
                      THEN Put(dir, PathName(file_path), up[UploadKey(src_path)])
                      ELSE dir,
                      Tail(data_files), up)

TempPath(id) == "/tmp/tmp" \o ToString(id)      \* tempfile.TemporaryDirectory()

\* Mutant: the workspace is mounted without :ro.
DockerCmdWorkspaceWritable(temp_path) ==
    [ by |-> "docker run", rm |-> TRUE, network |-> "none", memory |-> "512m",
      cpus |-> "0.5", read_only |-> TRUE,
      volumes |-> << [host |-> temp_path, at |-> "/sandbox/workspace", mode |-> "rw"],
                     [host |-> temp_path \o "/output", at |-> "/sandbox/output",
                      mode |-> "rw"] >>,
      cap_drop |-> "ALL", security_opt |-> "no-new-privileges",
      image |-> "koala-sandbox:latest", argv |-> "/sandbox/workspace/user_code.py" ]

DockerCmd(temp_path) ==         \* docker_cmd, with the defaults of CodeExecutor()
    [ by |-> "docker run", rm |-> TRUE, network |-> "none", memory |-> "512m",
      cpus |-> "0.5", read_only |-> TRUE,
      volumes |-> << [host |-> temp_path, at |-> "/sandbox/workspace", mode |-> "ro"],
                     [host |-> temp_path \o "/output", at |-> "/sandbox/output",
                      mode |-> "rw"] >>,
      cap_drop |-> "ALL", security_opt |-> "no-new-privileges",
      image |-> "koala-sandbox:latest", argv |-> "/sandbox/workspace/user_code.py" ]

\* CodeExecutor: copy the data files, build docker_cmd, mkdir output
DockerPrepare ==
    /\ pc = "prepare"
    /\ fs' = [fs EXCEPT ![ws] = Put(CopyData(@, call.data_files, uploads), "output", Dir)]
    /\ launch' = DockerCmd(TempPath(ws))
    /\ pc' = "spawn"
    /\ UNCHANGED <<code_executor, call, ws, proc, container, prog, pending, returns,
                   raised, leaked, vin, vout,
                   uploads, probe, other>>

MemoryLimitMb == 512

\* os.environ of the service
OsEnviron ==
    [PATH |-> "/usr/local/bin:/usr/bin", HOME |-> "/root", DATABASE_URL |-> "postgres://koala"]

RestrictedEnv ==
    [PATH |-> "/usr/bin:/bin", PYTHONPATH |-> "", HOME |-> "/tmp", TMPDIR |-> "/tmp",
     PYTHONDONTWRITEBYTECODE |-> "1", PYTHONUNBUFFERED |-> "1"]

\* Mutant: the child inherits the environment, with the fixed entries on top.
CreateRestrictedEnvInherits(os_environ) == RestrictedEnv @@ os_environ

CreateRestrictedEnv(os_environ) ==      \* SubprocessExecutor._create_restricted_env
    IF "PYTHONHOME" \in DOMAIN os_environ
    THEN RestrictedEnv @@ ("PYTHONHOME" :> os_environ["PYTHONHOME"])
    ELSE RestrictedEnv

\* Mutant: the CPU-time limit is the wall-clock timeout itself.
SetResourceLimitsNoMargin(timeout, memory_limit_mb) ==
    [ RLIMIT_AS    |-> <<memory_limit_mb * 1024 * 1024, memory_limit_mb * 1024 * 1024>>,
      RLIMIT_CPU   |-> <<timeout, timeout>>,
      RLIMIT_NPROC |-> <<1, 1>>,
      RLIMIT_FSIZE |-> <<10 * 1024 * 1024, 10 * 1024 * 1024>>,
      RLIMIT_CORE  |-> <<0, 0>> ]

\* SubprocessExecutor._set_resource_limits: resource -> (soft, hard)
SetResourceLimits(timeout, memory_limit_mb) ==
    [ RLIMIT_AS    |-> <<memory_limit_mb * 1024 * 1024, memory_limit_mb * 1024 * 1024>>,
      RLIMIT_CPU   |-> <<timeout + 5, timeout + 5>>,
      RLIMIT_NPROC |-> <<1, 1>>,
      RLIMIT_FSIZE |-> <<10 * 1024 * 1024, 10 * 1024 * 1024>>,
      RLIMIT_CORE  |-> <<0, 0>> ]

\* The arguments of subprocess.Popen
PopenArgs(temp_path, os_environ, timeout, memory_limit_mb) ==
    [ by |-> "Popen", argv |-> temp_path \o "/user_code.py",
      env |-> CreateRestrictedEnv(os_environ), cwd |-> temp_path,
      preexec_fn |-> SetResourceLimits(timeout, memory_limit_mb) ]

\* CodeExecutor: subprocess.run(docker_cmd, ...) starts the docker client
DockerSpawn ==
    /\ pc = "spawn" /\ code_executor = "docker"
    /\ \/ /\ proc' = [NoProc EXCEPT !.st = "running"]      \* container started
          /\ container' = "running"
          /\ prog' = StartProg(Read(fs[ws], "user_code.py"))
          /\ pc' = "wait"
          /\ UNCHANGED pending
       \/ /\ proc' = [st |-> "exited", rc |-> 125, out |-> "",   \* no such image
                      err |-> "Unable to find image"]
          /\ pc' = "wait"
          /\ UNCHANGED <<container, prog, pending>>
       \/ /\ pending' = Exc("FileNotFoundError")              \* no docker binary
          /\ pc' = "withexit"
          /\ UNCHANGED <<proc, container, prog>>
    /\ UNCHANGED <<code_executor, call, ws, fs, returns, raised, leaked, vin, vout,
                   uploads, probe, other, launch>>

\* SubprocessExecutor: subprocess.Popen([sys.executable, "-u", code_file], ...)
SubprocessSpawn ==
    /\ pc = "spawn" /\ code_executor = "subprocess"
    /\ \/ /\ proc' = [NoProc EXCEPT !.st = "running"]
          /\ prog' = StartProg(Read(fs[ws], "user_code.py"))
          /\ pc' = "wait"
          /\ UNCHANGED pending
       \/ /\ pending' = Exc("OSError")
          /\ pc' = "withexit"
          /\ UNCHANGED <<proc, prog>>
    /\ launch' = PopenArgs(TempPath(ws), OsEnviron, Timeout, MemoryLimitMb)
    /\ UNCHANGED <<code_executor, call, ws, fs, container, returns, raised, leaked,
                   vin, vout,
                   uploads, probe, other>>

\* The wall-clock timeout elapses while the spawned process is still running.
\* subprocess.run kills the process it started (the docker client) and raises;
\* SubprocessExecutor calls process.kill() on the child.
TimeoutExpired ==
    /\ pc = "wait" /\ proc.st = "running"
    /\ proc' = KillOnTimeout(proc)
    /\ pending' = TimeoutOutcome
    /\ pc' = "withexit"
    /\ UNCHANGED <<code_executor, call, ws, fs, container, prog, returns, raised,
                   leaked, vin, vout,
                   uploads, probe, other, launch>>

\* temp_path / "output" / "result.json" and temp_path / "result.json"
ResultFile(b) == IF b = "docker" THEN "output/result.json" ELSE "result.json"

\* The spawned process ended before the timeout: returncode, result file
Collect ==
    /\ pc = "wait" /\ proc.st = "exited"
    /\ pending' = CollectOutcome(proc, Read(fs[ws], ResultFile(code_executor)))
    /\ pc' = "withexit"
    /\ UNCHANGED <<code_executor, call, ws, fs, proc, container, prog, returns,
                   raised, leaked, vin, vout,
                   uploads, probe, other, launch>>

ExecuteCode == Execute(Requests)

\* Leaving the `with` block, by return or by exception
WithExit ==
    /\ pc = "withexit"
    /\ fs' = Cleanup(fs, ws)
    /\ IF pending.tag = "exception"
       THEN pc' = "except" /\ UNCHANGED returns
       ELSE pc' = "returned" /\ returns' = Append(returns, pending)
    /\ UNCHANGED <<code_executor, call, ws, proc, container, prog, pending, raised,
                   leaked, vin, vout,
                   uploads, probe, other, launch>>

\* Mutant: the handler logs and re-raises.
HandleExceptionReraises(e) == [ret |-> <<>>, raised |-> TRUE]

\* except Exception as e: return False, f"Internal error: {str(e)}", None
HandleException(e) == [ret |-> <<InternalError(e)>>, raised |-> FALSE]

Except ==
    /\ pc = "except"
    /\ returns' = returns \o HandleException(pending).ret
    /\ raised' = HandleException(pending).raised
    /\ pc' = "returned"
    /\ UNCHANGED <<code_executor, call, ws, fs, proc, container, prog, pending,
                   leaked, vin, vout,
                   uploads, probe, other, launch>>

----------------------------------------------------------------------------
(* The generated program running in the container or in the child process *)

ProgRuns ==
    /\ prog.ppc \notin {"none", "done"}
    /\ IF code_executor = "docker" THEN container = "running" ELSE proc.st = "running"

\* Where a path the program writes lies in the workspace: the container sees
\* {temp_path}/output as /sandbox/output; the child runs with cwd = temp_path.
\* The child is an ordinary process of the service's user and sees the host's
\* file system; the relative Path("uploads") lies in the directory the service
\* runs in.
ServerCwd == "/app/"

After(path, prefix) == SubSeq(path, Len(prefix) + 1, Len(path))

HostPath(b, path) ==
    IF b = "docker"
    THEN IF StartsWith(path, "/sandbox/output/")
         THEN [root |-> "workspace", rel |-> "output/" \o After(path, "/sandbox/output/"),
               writable |-> TRUE]
         ELSE IF StartsWith(path, "/sandbox/workspace/")
         THEN [root |-> "workspace", rel |-> After(path, "/sandbox/workspace/"),
               writable |-> FALSE]
         ELSE [root |-> "none", rel |-> path, writable |-> FALSE]    \* --read-only
    ELSE IF ~StartsWith(path, "/")
         THEN [root |-> "workspace", rel |-> path, writable |-> TRUE]
         ELSE IF StartsWith(path, ServerCwd \o UploadsDir)
         THEN [root |-> "uploads", rel |-> After(path, ServerCwd \o UploadsDir),
               writable |-> TRUE]
         ELSE [root |-> "none", rel |-> path, writable |-> FALSE]

ProgWriteFile(path, content) ==
    LET hp == HostPath(code_executor, path)
    IN  CASE hp.root = "workspace" /\ hp.writable /\ ws # 0 /\ fs[ws].exists ->
                /\ fs' = [fs EXCEPT ![ws] = Put(@, hp.rel, content)]
                /\ UNCHANGED uploads
          [] hp.root = "uploads" /\ hp.writable ->
                /\ uploads' = (hp.rel :> content) @@ uploads
                /\ UNCHANGED fs
          [] OTHER -> UNCHANGED <<fs, uploads>>

\* What the program finds when it opens `path` for reading
ProgReadFile(path) ==
    LET hp == HostPath(code_executor, path)
    IN  CASE hp.root = "workspace" ->
                IF ws # 0 /\ fs[ws].exists THEN Read(fs[ws], hp.rel) ELSE Absent
          [] hp.root = "uploads" ->
                IF hp.rel \in DOMAIN uploads THEN uploads[hp.rel] ELSE Absent
          [] OTHER -> Absent

\* The program ends: the process that runs it ends with it; the container was
\* started with --rm and the docker client relays its output and exit status.
ProgExit(p, rc, err) ==
    /\ prog' = [p EXCEPT !.ppc = "done", !.rc = rc, !.err = err]
    /\ proc' = IF proc.st = "running"
               THEN [st |-> "exited", rc |-> rc, out |-> p.out, err |-> err]
               ELSE proc
    /\ container' = IF code_executor = "docker" THEN "removed" ELSE container

ProgStep(p) == /\ prog' = p
               /\ UNCHANGED <<proc, container>>

\* The interpreter compiles the whole file before it runs any of it
ProgCompile ==
    /\ ProgRuns /\ prog.ppc = "start"
    /\ IF Compile(prog.program.body) = "ok"
       THEN ProgStep([prog EXCEPT !.ppc = IF prog.program.hardening THEN "harden"
                                          ELSE "imports"])
       ELSE ProgExit(prog, 1, "SyntaxError")
    /\ UNCHANGED <<code_executor, pc, call, ws, fs, pending, returns, raised, leaked,
                   vin, vout,
                   uploads, probe, other, launch>>

\* SubprocessExecutor wrapper: dangerous modules, then the builtins loop
ProgHarden ==
    /\ ProgRuns /\ prog.ppc = "harden"
    /\ ProgStep([prog EXCEPT !.builtins = Harden(@), !.ppc = "imports"])
    /\ UNCHANGED <<code_executor, pc, call, ws, fs, pending, returns, raised, leaked,
                   vin, vout,
                   uploads, probe, other, launch>>

\* import pandas as pd ... : the import statement calls builtins.__import__
ProgImports ==
    /\ ProgRuns /\ prog.ppc = "imports"
    /\ IF "__import__" \in prog.builtins
       THEN ProgStep([prog EXCEPT !.ppc = "loads"])
       ELSE ProgExit(prog, 1, Traceback("ImportError: __import__ not found"))
    /\ UNCHANGED <<code_executor, pc, call, ws, fs, pending, returns, raised, leaked,
                   vin, vout,
                   uploads, probe, other, launch>>

\* os.makedirs of the plots directory (Container wrapper), then the load
\* statements, which stand before the try block: a file that cannot be read
\* ends the program with a traceback on stderr.
ProgLoads ==
    /\ ProgRuns /\ prog.ppc = "loads"
    /\ IF prog.program.makedirs # {}
       THEN ProgWriteFile(CHOOSE d \in prog.program.makedirs : TRUE, Dir)
       ELSE UNCHANGED <<fs, uploads>>
    /\ IF \A k \in 1..Len(prog.program.loads) :
              ProgReadFile(prog.program.loads[k].path) # Absent
       THEN ProgStep([prog EXCEPT !.ppc = "user"])
       ELSE ProgExit(prog, 1, Traceback("FileNotFoundError: No such file or directory"))
    /\ UNCHANGED <<code_executor, pc, call, ws, pending, returns, raised, leaked,
                   vin, vout, probe, other, launch>>

\* An exception inside the try block reaches `except Exception as e`, which
\* looks the name Exception up in builtins.
Raise(p, msg) ==
    IF "Exception" \in p.builtins
    THEN ProgStep([p EXCEPT !.ppc = "except", !.exc = msg])
    ELSE ProgExit([p EXCEPT !.exc = msg], 1,
                  Traceback("NameError: name 'Exception' is not defined"))

\* One line of the user's code inside the try block
ProgUser ==
    /\ ProgRuns /\ prog.ppc = "user"
    /\ LET e == Effect(Dedent(prog.lines[prog.i]))
           next == [prog EXCEPT !.i = @ + 1,
                                !.ppc = IF prog.i = Len(prog.lines) THEN "capture" ELSE "user"]
       IN  CASE e.op = "assign" ->
                  /\ ProgStep([next EXCEPT !.ns = BindAll(@, e.vars, e.val)])
                  /\ UNCHANGED <<fs, uploads>>
             [] e.op = "print" ->
                  /\ ProgStep([next EXCEPT !.out = @ \o e.text])
                  /\ UNCHANGED <<fs, uploads>>
             [] e.op = "raise" ->
                  /\ Raise(prog, e.msg)
                  /\ UNCHANGED <<fs, uploads>>
             [] e.op = "scribble" ->
                  IF "open" \in prog.builtins /\ HostPath(code_executor, e.path).writable
                  THEN /\ ProgWriteFile(e.path, [fmt |-> "text"])
                       /\ ProgStep(next)
                  ELSE /\ Raise(prog, e.msg)
                       /\ UNCHANGED <<fs, uploads>>
             [] e.op = "figure" ->
                  /\ ProgStep([next EXCEPT !.figs = @ + e.n])
                  /\ UNCHANGED <<fs, uploads>>
             [] e.op = "SystemExit" ->       \* not an Exception: the handler is passed by
                  /\ ProgExit([prog EXCEPT !.exc = "SystemExit"], e.code, "")
                  /\ UNCHANGED <<fs, uploads>>
             [] e.op = "patch" ->
                  /\ ProgStep([next EXCEPT !.exits = FALSE])
                  /\ UNCHANGED <<fs, uploads>>
             [] e.op = "exit" ->
                  /\ ProgExit(prog, 0, "")
                  /\ UNCHANGED <<fs, uploads>>
             [] e.op = "loop" ->
                  /\ ProgStep(prog)
                  /\ UNCHANGED <<fs, uploads>>
             [] OTHER ->
                  /\ ProgStep(next)
                  /\ UNCHANGED <<fs, uploads>>
    /\ UNCHANGED <<code_executor, pc, call, ws, pending, returns, raised, leaked,
                   vin, vout, probe, other, launch>>

\* The capture loop
ProgCapture ==
    /\ ProgRuns /\ prog.ppc = "capture"
    /\ IF CaptureRaises(prog.program, prog.ns)
       THEN Raise(prog, "dictionary changed size during iteration")
       ELSE ProgStep([prog EXCEPT !.ppc = "plots",
                                  !.result = Capture(prog.program, prog.ns)])
    /\ UNCHANGED <<code_executor, pc, call, ws, fs, pending, returns, raised, leaked,
                   vin, vout,
                   uploads, probe, other, launch>>

PlotBound == 5      \* if i < 5

Png == [fmt |-> "png"]

\* The names plt.savefig is called with, for n open figures
PlotPaths(program, n) ==
    LET saved == IF program.plots.capped /\ n > PlotBound THEN PlotBound ELSE n
    IN  [i \in 1..saved |-> program.plots.path \o ToString(i - 1) \o ".png"]

\* for i, num in enumerate(plt.get_fignums()): plt.savefig(...)
ProgPlots ==
    /\ ProgRuns /\ prog.ppc = "plots"
    /\ LET paths == PlotPaths(prog.program, prog.figs)
           rels == { HostPath(code_executor, paths[i]).rel : i \in 1..Len(paths) }
       IN  /\ IF ws # 0 /\ fs[ws].exists
              THEN fs' = [fs EXCEPT ![ws].files = [r \in rels |-> Png] @@ @]
              ELSE UNCHANGED fs
           /\ ProgStep([prog EXCEPT
                  !.ppc = "write",
                  !.result = IF prog.program.plots.listed /\ Len(paths) > 0
                             THEN ("__plots" :> [type |-> "plots", data |-> paths]) @@ @
                             ELSE @])
    /\ UNCHANGED <<code_executor, pc, call, ws, pending, returns, raised, leaked,
                   vin, vout, uploads, probe, other, launch>>

\* json.dump(__result, f): the envelope, then the program ends with status 0
ProgWrite ==
    /\ ProgRuns /\ prog.ppc = "write"
    /\ ProgWriteFile(prog.program.result, [fmt |-> "json", doc |-> prog.result])
    /\ ProgExit(prog, 0, "")
    /\ UNCHANGED <<code_executor, pc, call, ws, pending, returns, raised, leaked,
                   vin, vout, probe, other, launch>>

\* except Exception as e: the error envelope, then sys.exit(1)
ProgExcept ==
    /\ ProgRuns /\ prog.ppc = "except"
    /\ ProgWriteFile(prog.program.result, ErrorEnvelope(prog.exc))
    /\ IF prog.exits
       THEN ProgExit(prog, 1, "")
       ELSE ProgExit([prog EXCEPT !.out = @ \o "1\n"], 0, "")   \* sys.exit is print
    /\ UNCHANGED <<code_executor, pc, call, ws, pending, returns, raised, leaked,
                   vin, vout, probe, other, launch>>

----------------------------------------------------------------------------
(* A second execute_code call on the same executor, running alongside *)

fgVars == <<code_executor, pc, call, ws, proc, container, prog, pending, returns,
            raised, leaked, vin, vout, probe, launch>>

OtherStart(code) ==
    [pc |-> "mkdtemp", code |-> code, ws |-> 0, files |-> <<>>, proc |-> NoProc,
     pending |-> Nothing]

OtherLive == other.pc \in {"wrap", "wait", "withexit"}

\* Whether the generated program gets as far as the user's statements
UserCodeRuns(b) == b = "docker" \/ "__import__" \in Harden(AllBuiltins)

\* Where user code may try to write: the result file and a plot, at the paths
\* the wrapper itself uses, and a file of the uploads directory
OtherPaths(b) ==
    {"/app/uploads/a.csv"}
    \cup IF b = "docker"
         THEN {"/sandbox/output/result.json", "/sandbox/output/plots/figure_0.png"}
         ELSE {"result.json", "plot_0.png"}
OtherContents == { [fmt |-> "json", doc |-> [x |-> IntVal(5)]], [fmt |-> "text"] }

OtherCall ==
    /\ pc # "startup" /\ other = NoOther
    /\ other' = OtherStart("x = 5")
    /\ UNCHANGED <<fgVars, fs, uploads>>

\* with tempfile.TemporaryDirectory() as temp_dir. A directory that a program
\* still running has mounted is not the one a later mkdtemp returns, whatever
\* its name.
OtherEnterWith ==
    /\ other.pc = "mkdtemp"
    /\ \/ \E id \in WsIds :
            /\ Fresh(fs, id)
            /\ ~(id = ws /\ ProgRuns)
            /\ fs' = [fs EXCEPT ![id] = EmptyDir]
            /\ other' = [other EXCEPT !.ws = id, !.pc = "wrap"]
       \/ /\ other' = [other EXCEPT !.pending = InternalError(Exc("OSError")),
                                     !.pc = "returned"]
          /\ UNCHANGED fs
    /\ UNCHANGED <<fgVars, uploads>>

\* write the wrapped program, make the output directory, spawn
OtherSpawn ==
    /\ other.pc = "wrap"
    /\ fs' = [fs EXCEPT ![other.ws] =
                 Put(IF code_executor = "docker" THEN Put(@, "output", Dir) ELSE @,
                     "user_code.py", wrap_code(code_executor, other.code, <<>>))]
    /\ other' = [other EXCEPT !.pc = "wait", !.proc = [NoProc EXCEPT !.st = "running"]]
    /\ UNCHANGED <<fgVars, uploads>>

\* The program of the other call writes a file where its mounts (container) or
\* its working directory (child process) let it.
OtherProgramWrites ==
    /\ other.pc = "wait" /\ other.proc.st = "running"
    /\ UserCodeRuns(code_executor)
    /\ \E path \in OtherPaths(code_executor), content \in OtherContents :
          LET hp == HostPath(code_executor, path)
          IN  /\ hp.writable
              /\ CASE hp.root = "workspace" ->
                        /\ fs' = [fs EXCEPT ![other.ws] = Put(@, hp.rel, content)]
                        /\ other' = [other EXCEPT !.files = (hp.rel :> content) @@ @]
                        /\ UNCHANGED uploads
                   [] hp.root = "uploads" ->
                        /\ uploads' = (hp.rel :> content) @@ uploads
                        /\ UNCHANGED <<fs, other>>
                   [] OTHER -> FALSE
    /\ UNCHANGED fgVars

OtherProgramExits ==
    /\ other.pc = "wait" /\ other.proc.st = "running"
    /\ \E rc \in IF UserCodeRuns(code_executor) THEN {0, 1} ELSE {1} :
          other' = [other EXCEPT !.proc = [st |-> "exited", rc |-> rc, out |-> "",
                                           err |-> ""]]
    /\ UNCHANGED <<fgVars, fs, uploads>>

OtherTimeoutExpired ==
    /\ other.pc = "wait" /\ other.proc.st = "running"
    /\ other' = [other EXCEPT !.proc = KillOnTimeout(@), !.pending = TimeoutOutcome,
                              !.pc = "withexit"]
    /\ UNCHANGED <<fgVars, fs, uploads>>

OtherCollect ==
    /\ other.pc = "wait" /\ other.proc.st = "exited"
    /\ other' = [other EXCEPT
                    !.pending = CollectOutcome(other.proc,
                                               Read(fs[other.ws], ResultFile(code_executor))),
                    !.pc = "withexit"]
    /\ UNCHANGED <<fgVars, fs, uploads>>

OtherWithExit ==
    /\ other.pc = "withexit"
    /\ fs' = Cleanup(fs, other.ws)
    /\ other' = [other EXCEPT !.pc = "returned",
                              !.pending = IF @.tag = "exception" THEN InternalError(@) ELSE @]
    /\ UNCHANGED <<fgVars, uploads>>

OtherReturn ==
    /\ other.pc = "returned"
    /\ other' = NoOther
    /\ UNCHANGED <<fgVars, fs, uploads>>

OtherNext ==
    \/ OtherCall \/ OtherEnterWith \/ OtherSpawn \/ OtherProgramWrites
    \/ OtherProgramExits \/ OtherTimeoutExpired \/ OtherCollect \/ OtherWithExit
    \/ OtherReturn

----------------------------------------------------------------------------
(* Specifications *)

HostNext ==
    \/ EnterWith \/ WriteProgram \/ DockerPrepare \/ DockerSpawn \/ SubprocessSpawn
    \/ TimeoutExpired \/ Collect \/ WithExit \/ Except

ProgNext ==
    \/ ProgCompile \/ ProgHarden \/ ProgImports \/ ProgLoads \/ ProgUser \/ ProgCapture
    \/ ProgPlots \/ ProgWrite \/ ProgExcept

Next ==
    \/ Startup \/ ExecuteCodeInternal \/ ExecuteHealth \/ ExecuteCode \/ NextRequest
    \/ HostNext
    \/ ProgNext

Spec == Init /\ [][Next]_vars

\* The host never stops inside execute_code: the thread that called it keeps
\* running and the wall-clock timer of the wait does elapse.
FairSpec == Spec /\ WF_vars(HostNext)

\* Two calls side by side
ExecuteConcurrently == Execute(ConcurrentRequests)

ConcurrentNext ==
    \/ Startup \/ ExecuteConcurrently \/ NextRequest
    \/ HostNext
    \/ ProgNext
    \/ OtherNext

SpecConcurrent == Init /\ [][ConcurrentNext]_vars

\* validate_code as a function of its input
ValidateInit ==
    /\ code_executor = "None"
    /\ pc = "startup"
    /\ call = NoCall
    /\ ws = 0
    /\ fs = [id \in WsIds |-> NoDir]
    /\ proc = NoProc
    /\ container = "none"
    /\ prog = NoProg
    /\ pending = Nothing
    /\ returns = <<>>
    /\ raised = FALSE
    /\ leaked = FALSE
    /\ uploads = InitialUploads
    /\ probe = "none"
    /\ other = NoOther
    /\ launch = NoLaunch
    /\ vin \in { [tag |-> "input", backend |-> b, code |-> c] : b \in Backends, c \in Codes }
    /\ vout = Nothing

ValidateCall ==
    /\ vout = Nothing
    /\ vout' = [tag |-> "result", res |-> validate_code(vin.backend, vin.code)]
    /\ UNCHANGED <<hostVars, vin>>

SpecValidate == ValidateInit /\ [][ValidateCall]_vars

\* _wrap_code as a function of its input
WrapInit ==
    /\ code_executor = "None"
    /\ pc = "startup"
    /\ call = NoCall
    /\ ws = 0
    /\ fs = [id \in WsIds |-> NoDir]
    /\ proc = NoProc
    /\ container = "none"
    /\ prog = NoProg
    /\ pending = Nothing
    /\ returns = <<>>
    /\ raised = FALSE
    /\ leaked = FALSE
    /\ uploads = InitialUploads
    /\ probe = "none"
    /\ other = NoOther
    /\ launch = NoLaunch
    /\ vin \in { [tag |-> "input", backend |-> b, code |-> c, data_files |-> d] :
                    b \in Backends, c \in BoundCodes, d \in DataFiles }
    /\ vout = Nothing

WrapCall ==
    /\ vout = Nothing
    /\ vout' = [tag |-> "program", res |-> wrap_code(vin.backend, vin.code, vin.data_files)]
    /\ UNCHANGED <<hostVars, vin>>

SpecWrap == WrapInit /\ [][WrapCall]_vars

\* The child of SubprocessExecutor.execute_code, for the configurations and
\* the environments a service may run with
Timeouts == {1, 30, 300}
MemoryLimits == {64, 512, 1024}
Environs == {
    OsEnviron,
    [PATH |-> "/usr/bin"],
    [PATH |-> "/opt/bin", AWS_SECRET_ACCESS_KEY |-> "k"],
    [PATH |-> "/usr/bin", PYTHONHOME |-> "/opt/py"],
    [HOME |-> "/root", AWS_SECRET_ACCESS_KEY |-> "k", PYTHONHOME |-> "/opt/py"],
    [PYTHONPATH |-> "/srv/lib", TMPDIR |-> "/var/tmp", PYTHONHOME |-> "/usr"] }

LaunchInit ==
    /\ code_executor = "subprocess"
    /\ pc = "startup"
    /\ call = NoCall
    /\ ws = 0
    /\ fs = [id \in WsIds |-> NoDir]
    /\ proc = NoProc
    /\ container = "none"
    /\ prog = NoProg
    /\ pending = Nothing
    /\ returns = <<>>
    /\ raised = FALSE
    /\ leaked = FALSE
    /\ uploads = InitialUploads
    /\ probe = "none"
    /\ other = NoOther
    /\ launch = NoLaunch
    /\ vin \in { [tag |-> "input", timeout |-> t, memory_limit_mb |-> mb,
                   os_environ |-> e, twin_environ |-> e2] :
                    t \in Timeouts, mb \in MemoryLimits, e \in Environs, e2 \in Environs }
    /\ vout = Nothing

\* Limits a process has before anything sets them
Unlimited ==
    [ RLIMIT_AS |-> <<-1, -1>>, RLIMIT_CPU |-> <<-1, -1>>, RLIMIT_NPROC |-> <<-1, -1>>,
      RLIMIT_FSIZE |-> <<-1, -1>>, RLIMIT_CORE |-> <<-1, -1>> ]       \* RLIM_INFINITY

\* subprocess.Popen forks: the child starts as a copy of the service. `twin` is
\* the child of the same call made by a service whose environment is
\* twin_environ.
PopenFork ==
    /\ vout = Nothing
    /\ launch' = PopenArgs(TempPath(1), vin.os_environ, vin.timeout, vin.memory_limit_mb)
    /\ vout' = [tag |-> "child", at |-> "forked", env |-> vin.os_environ,
                twin |-> vin.twin_environ, limits |-> Unlimited]
    /\ UNCHANGED <<code_executor, pc, call, ws, fs, proc, container, prog, pending,
                   returns, raised, leaked, uploads, probe, other, vin>>

\* preexec_fn runs in the child, before the exec
PopenPreexec ==
    /\ vout # Nothing /\ vout.at = "forked"
    /\ vout' = [vout EXCEPT !.at = "preexec", !.limits = launch.preexec_fn]
    /\ UNCHANGED <<hostVars, vin>>

\* exec of sys.executable with env: the generated program starts
PopenExec ==
    /\ vout # Nothing /\ vout.at = "preexec"
    /\ vout' = [vout EXCEPT !.at = "running", !.env = launch.env,
                            !.twin = CreateRestrictedEnv(vin.twin_environ)]
    /\ UNCHANGED <<hostVars, vin>>

\* The generated program runs to its end; nothing in it sets a limit
PopenChildExits ==
    /\ vout # Nothing /\ vout.at = "running"
    /\ vout' = [vout EXCEPT !.at = "exited"]
    /\ UNCHANGED <<hostVars, vin>>

SpecLaunch ==
    LaunchInit /\ [][PopenFork \/ PopenPreexec \/ PopenExec \/ PopenChildExits]_vars

----------------------------------------------------------------------------
(* Claims *)

Validated == vout.tag = "result"

ForbiddenOf(b) == IF b = "docker" THEN DockerForbidden ELSE SubprocessForbidden

HasPattern(b, code) ==
    \E k \in 1..Len(ForbiddenOf(b)) : Contains(code, ForbiddenOf(b)[k])

IsPattern(b, p) == \E k \in 1..Len(ForbiddenOf(b)) : ForbiddenOf(b)[k] = p

\* How a backend compares a pattern with the code
Occurs(b, code, p) ==
    IF b = "docker" THEN Contains(Lower(code), Lower(p)) ELSE Contains(code, p)

\* C1 as stated: code that contains a forbidden pattern of the backend is
\* rejected with a detail naming a forbidden pattern that is a substring of the
\* code.
C1_AsStated ==
    (Validated /\ HasPattern(vin.backend, vin.code)) =>
        /\ ~vout.res.ok
        /\ vout.res.kind = "Forbidden pattern detected: "
        /\ IsPattern(vin.backend, vout.res.detail)
        /\ Contains(vin.code, vout.res.detail)

\* C1 amended: code that contains a forbidden pattern of the backend is never
\* accepted; it is rejected with a detail naming a forbidden pattern that
\* occurs in the code as the backend compares (ignoring case on CodeExecutor).
C1_NamesMatchedPattern ==
    (Validated /\ HasPattern(vin.backend, vin.code)) =>
        /\ ~vout.res.ok
        /\ vout.res.kind = "Forbidden pattern detected: "
        /\ IsPattern(vin.backend, vout.res.detail)
        /\ Occurs(vin.backend, vin.code, vout.res.detail)

C1_Witness ==
    /\ Validated
    /\ vin.backend = "docker"
    /\ Contains(vin.code, "open(")
    /\ vout.res.detail = "eval("

\* C3 as stated: code that is not valid syntax is rejected with a syntax-error
\* detail, also when it contains a forbidden pattern.
C3_AsStated ==
    (Validated /\ Compile(vin.code) = "SyntaxError") =>
        /\ ~vout.res.ok
        /\ vout.res.kind = "Syntax error: "

\* C3 amended: code that is not valid syntax is always rejected; the detail is
\* the syntax-error detail exactly when no forbidden pattern of the backend
\* matches, and the forbidden-pattern detail otherwise.
C3_InvalidSyntaxRejected ==
    (Validated /\ Compile(vin.code) = "SyntaxError") =>
        /\ ~vout.res.ok
        /\ IF \E k \in 1..Len(ForbiddenOf(vin.backend)) :
                   Occurs(vin.backend, vin.code, ForbiddenOf(vin.backend)[k])
           THEN vout.res.kind = "Forbidden pattern detected: "
           ELSE vout.res.kind = "Syntax error: "

C3_Witness ==
    /\ Validated
    /\ vin.code = "x = ("
    /\ vin.backend = "subprocess"
    /\ vout.res.kind = "Syntax error: "

Direct == call.via = "direct"
Returned == pc = "returned" /\ Direct
Ran == prog.ppc = "done" /\ proc.st = "exited"     \* program spawned and ended on its own

\* C2: a request whose code validate_code of the active backend rejects gets no
\* workspace, no generated program, and no process or container.
C2_ValidationPrecedesExecution ==
    (call.via # "none" /\ ~validate_code(code_executor, call.code).ok) =>
        /\ ws = 0
        /\ proc.st = "none"
        /\ container = "none"
        /\ prog = NoProg

XisFive == [x |-> [type |-> "int", data |-> "5"]]

\* C4: on the Container backend `x = 5` runs to the envelope write with exit
\* status 0 and execute_code returns (True, stdout, {x: {type: int, data: 5}}).
C4_ContainerXisFive ==
    (Returned /\ code_executor = "docker" /\ call.code = "x = 5" /\ Ran) =>
        /\ prog.rc = 0
        /\ Len(returns) = 1
        /\ returns[1].success
        /\ returns[1].data = XisFive

\* C5: on the Restricted-Process backend `x = 5` runs through hardening,
\* imports, user block, capture and envelope write with exit status 0 and
\* execute_code returns (True, stdout, {x: {type: int, data: 5}}).
C5_SubprocessXisFive ==
    (Returned /\ code_executor = "subprocess" /\ call.code = "x = 5" /\ Ran) =>
        /\ prog.rc = 0
        /\ Len(returns) = 1
        /\ returns[1].success
        /\ returns[1].data = XisFive

TimedOut == proc.st = "killed"

IsTimeoutTuple(r) ==
    /\ r.tag = "tuple"
    /\ ~r.success
    /\ StartsWith(r.text, "Code execution timed out after ")
    /\ r.data = None

C6_Safety ==
    /\ (pc = "withexit" /\ TimedOut) => IsTimeoutTuple(pending)
    /\ (Returned /\ TimedOut) =>
          /\ returns = <<pending>>
          /\ IsTimeoutTuple(returns[1])
          /\ ~fs[ws].exists

\* C6: when the timeout elapses before the spawned program has finished,
\* execute_code returns: the outcome is (False, timeout message, None) whatever
\* the result file holds, and the workspace is gone after the return.
C6_TimeoutReturns ==
    /\ []C6_Safety
    /\ (pc = "wait" /\ proc.st = "running") ~> (pc = "returned")

\* The timeout fires while a result file is already in the workspace.
C6_Witness ==
    /\ pc = "withexit" /\ TimedOut
    /\ Read(fs[ws], ResultFile(code_executor)) # Absent
    /\ IsTimeoutTuple(pending)

\* C7: when the user code raises inside the guarded block, execute_code returns
\* a failure that carries the exception's message and traceback from the
\* envelope's error key, and no captured variable.
C7_RuntimeErrorFromEnvelope ==
    (Returned /\ Ran /\ prog.exc # "") =>
        /\ Len(returns) = 1
        /\ ~returns[1].success
        /\ Contains(returns[1].text, prog.exc)
        /\ Contains(returns[1].text, Traceback(prog.exc))
        /\ returns[1].data = None

\* C8: execute_code returns exactly one tuple and raises nothing; timeout,
\* non-zero exit, unparsable result file, workspace-creation failure and spawn
\* failure all give success = False and result_data = None.
C8_OneOutcomeNoException ==
    Direct =>
        /\ ~raised
        /\ Len(returns) <= 1
        /\ pc = "returned" =>
              /\ Len(returns) = 1
              /\ returns[1].tag = "tuple"
              /\ ( \/ TimedOut
                   \/ proc.st = "exited" /\ proc.rc # 0
                   \/ pending.tag = "exception" ) =>
                      (~returns[1].success /\ returns[1].data = None)

\* The result file was there, the exit status was 0, and it did not parse.
C8_Witness ==
    /\ Returned
    /\ pending = Exc("JSONDecodeError")
    /\ returns = <<InternalError(pending)>>

\* C9: once execute_code has returned, the workspace it created does not
\* exist, on every exit path.
C9_WorkspaceDestroyed ==
    (pc \in {"returned", "idle"}) => \A id \in WsIds : ~fs[id].exists

\* Returned through the exception handler after the workspace had been created.
C9_Witness ==
    /\ Returned
    /\ ws # 0
    /\ pending.tag = "exception"
    /\ ~fs[ws].exists

\* C10: after CodeExecutor.execute_code has returned, on any path, no container
\* started by the call is still running.
C10_ContainerGone ==
    (Returned /\ code_executor = "docker") => container # "running"

ChildEnded == proc.st \in {"exited", "killed"}

C11_Safety ==
    code_executor = "subprocess" =>
        /\ (Returned /\ proc.st # "none") => ChildEnded
        /\ (pending = TimeoutOutcome /\ pc \in {"withexit", "returned"}) => proc.st = "killed"
        /\ (ws # 0 /\ proc.st = "running") => fs[ws].exists

\* C11: on the Restricted-Process backend every child execute_code spawned has
\* exited or been killed by the time execute_code returns; on the timeout path
\* the kill comes with the handler, before the timeout outcome leaves the with
\* block and so before the workspace is removed and the outcome returned.
C11_ChildEndedBeforeReturn ==
    /\ []C11_Safety
    /\ [][(code_executor = "subprocess" /\ pc = "wait" /\ pending' = TimeoutOutcome)
            => (proc'.st = "killed" /\ fs'[ws].exists /\ returns' = <<>>)]_vars

\* The child ran into the timeout and execute_code has returned.
C11_Witness ==
    /\ Returned /\ code_executor = "subprocess"
    /\ proc.st = "killed"
    /\ returns = <<TimeoutOutcome>>
    /\ ~fs[ws].exists

Collected == pc = "withexit" /\ proc.st = "exited"
EnvelopeFile == Read(fs[ws], ResultFile(code_executor))

\* C12 as stated: without a timeout, exit status 0 without a result file gives
\* (True, stdout, None), exit status 0 with a result file gives (True, stdout,
\* parsed file), and a non-zero exit status without a result file gives
\* (False, message built from stderr, None).
C12_AsStated ==
    Collected =>
        /\ (proc.rc = 0 /\ EnvelopeFile = Absent) => pending = Outcome(TRUE, proc.out, None)
        /\ (proc.rc = 0 /\ EnvelopeFile # Absent) =>
              /\ pending.tag = "tuple"
              /\ pending.success
              /\ pending.text = proc.out
              /\ EnvelopeFile.fmt = "json"
              /\ pending.data = EnvelopeFile.doc
        /\ (proc.rc # 0 /\ EnvelopeFile = Absent) =>
              pending = Outcome(FALSE, "Execution error: " \o proc.err, None)

\* C12 amended: as stated when the result file parses as JSON; a result file
\* that is present with exit status 0 and does not parse gives no success but
\* (False, "Internal error: ...", None); a non-zero exit status gives the
\* stderr message whether or not a result file is present.
C12_OutcomeByExitAndEnvelope ==
    /\ Collected =>
          /\ (proc.rc = 0 /\ EnvelopeFile = Absent) => pending = Outcome(TRUE, proc.out, None)
          /\ (proc.rc = 0 /\ EnvelopeFile # Absent) =>
                IF EnvelopeFile.fmt = "json"
                THEN pending = Outcome(TRUE, proc.out, EnvelopeFile.doc)
                ELSE pending = Exc("JSONDecodeError")
          /\ proc.rc # 0 => pending = Outcome(FALSE, "Execution error: " \o proc.err, None)
    /\ (Returned /\ pending = Exc("JSONDecodeError")) =>
          returns = <<Outcome(FALSE, "Internal error: JSONDecodeError", None)>>

\* Exit status 0 and a result file that parses to captured variables.
C12_Witness ==
    /\ Collected /\ proc.rc = 0
    /\ EnvelopeFile # Absent
    /\ EnvelopeFile.fmt = "json"
    /\ pending = Outcome(TRUE, proc.out, EnvelopeFile.doc)
    /\ DOMAIN EnvelopeFile.doc # {}

\* C14: once startup is over the executor is the Container backend exactly
\* when the `docker --version` probe ran and returned exit status 0, and the
\* Restricted-Process backend when it returned non-zero or raised; from then on
\* it is never unset and never changes.
C14_BackendSelection ==
    /\ [](pc # "startup" =>
            /\ code_executor \in Backends
            /\ code_executor = "docker" <=> probe = "rc0"
            /\ code_executor = "subprocess" <=> probe \in {"nonzero", "raises"})
    /\ [][pc # "startup" => code_executor' = code_executor]_vars

\* The probe raised and requests are served by the Restricted-Process backend.
C14_Witness ==
    /\ probe = "raises"
    /\ code_executor = "subprocess"
    /\ Returned

HealthAnswered == call.via = "health" /\ pc = "returned"

\* C15: the health check runs print('healthy') through the active backend and
\* answers healthy, with the backend variant and the snippet's output, when the
\* backend produced that output; it answers unhealthy only when the backend
\* failed to produce it.
C15_HealthRunsSnippet ==
    HealthAnswered =>
        /\ prog # NoProg
        /\ prog.program.body = Indent("print('healthy')")
        /\ returns[1].status = "healthy" <=> (proc.rc = 0 /\ proc.out = "healthy\n")
        /\ returns[1].status = "healthy" =>
              (returns[1].executor_type = code_executor /\ returns[1].test_output = "healthy")

\* The call ended without the generated program ever having started: the
\* workspace could not be created, the spawn failed, or the container runtime
\* found no image to run.
InfrastructureFailure == Returned /\ prog = NoProg

\* C16: an infrastructure failure of the backend is never returned in the
\* "Execution error: ..." form that is used when the user's program exits
\* non-zero.
C16_InfrastructureDistinct ==
    InfrastructureFailure =>
        /\ Len(returns) = 1
        /\ ~StartsWith(returns[1].text, "Execution error: ")

\* The file a binding names is not under the uploads directory
Missing(d) == UploadKey(PathJoin(UploadsDir, d.path)) \notin DOMAIN uploads

LoadsOf(name) ==
    { k \in 1..Len(prog.program.loads) : prog.program.loads[k].var = name }

\* C17: a binding whose file is not on disk under the uploads root is rejected
\* before execution or ignored: the program that runs holds no load statement
\* for it, and an execution that succeeds without the binding does not fail
\* with it.
C17_MissingFileIgnored ==
    /\ (Direct /\ prog # NoProg) =>
          \A k \in 1..Len(call.data_files) :
              Missing(call.data_files[k]) => LoadsOf(call.data_files[k].name) = {}
    /\ (Returned /\ Ran /\ code_executor = "docker"
           /\ call.code = "var_name = var_value = 0"
           /\ \A k \in 1..Len(call.data_files) : Missing(call.data_files[k])) =>
          returns[1].success

\* The same execution with the bound file on disk: it succeeds and the
\* envelope holds the data frame.
C17_BoundFileLoaded ==
    /\ Returned /\ Ran /\ code_executor = "docker"
    /\ call.data_files = <<Binding("df", "a.csv")>>
    /\ returns[1].success
    /\ returns[1].data.df.type = "dataframe"

Wrapped == vout.tag = "program"

EndsWith(s, p) == Len(s) >= Len(p) /\ SubSeq(s, Len(s) - Len(p) + 1, Len(s)) = p
IsCsv(path) == EndsWith(Lower(path), ".csv")
IsSheet(path) == EndsWith(Lower(path), ".xlsx") \/ EndsWith(Lower(path), ".xls")
Supported(d) == IsCsv(d.path) \/ IsSheet(d.path)
Positions(text, line) == { i \in 1..Len(text) : text[i] = line }

\* C19: _wrap_code emits, for the bindings whose path ends in .csv or in
\* .xlsx/.xls whatever the case of the letters, exactly one load statement
\* each, assigning to the binding's name with the delimited or the spreadsheet
\* reader; it emits nothing for any other binding; the statements stand in
\* binding order before the try block.
C19_LoadStatements ==
    Wrapped =>
        LET sup == SelectSeq(vin.data_files, Supported)
            L == vout.res.loads
            T == vout.res.text
            pos(j) == CHOOSE i \in Positions(T, LoadText(L[j])) : TRUE
        IN  /\ Len(L) = Len(sup)
            /\ Cardinality(Positions(T, "try:")) = 1
            /\ Cardinality({ i \in 1..Len(T) : Contains(T[i], " = pd.read_") }) = Len(sup)
            /\ \A j \in 1..Len(L) :
                  /\ L[j].var = sup[j].name
                  /\ L[j].reader = IF IsCsv(sup[j].path) THEN "read_csv" ELSE "read_excel"
                  /\ StartsWith(LoadText(L[j]), sup[j].name \o " = pd." \o L[j].reader \o "(")
                  /\ Cardinality(Positions(T, LoadText(L[j]))) = 1
                  /\ pos(j) < (CHOOSE i \in Positions(T, "try:") : TRUE)
                  /\ \A i \in 1..(j - 1) : pos(i) < pos(j)

\* An unsupported extension is skipped and an upper-case one is loaded.
C19_Witness ==
    /\ Wrapped
    /\ Len(vin.data_files) = 2
    /\ vin.data_files[1].path = "e.txt"
    /\ vin.data_files[2].path = "b.CSV"
    /\ Len(vout.res.loads) = 1
    /\ vout.res.loads[1].var = vin.data_files[2].name

Hardened == prog # NoProg /\ prog.program.hardening /\ prog.ppc \notin {"start", "harden"}

\* C20: once the hardening loop of the Restricted-Process program has run,
\* every name still in the builtins namespace belongs to safe_builtins; eval,
\* exec, open, getattr, globals and input are gone.
C20_OnlySafeBuiltins ==
    Hardened =>
        /\ prog.builtins \subseteq SafeBuiltins
        /\ prog.builtins \cap {"eval", "exec", "open", "getattr", "globals", "input"} = {}

Live == pc \in {"wrap", "prepare", "spawn", "wait", "withexit"}

\* What the other call's own program has left at the result path
OwnResult ==
    IF ResultFile(code_executor) \in DOMAIN other.files
    THEN other.files[ResultFile(code_executor)]
    ELSE Absent

C13_Safety ==
    /\ (Live /\ OtherLive) => ws # other.ws
    /\ (Live /\ pc # "wrap") =>
          Read(fs[ws], "user_code.py") = wrap_code(code_executor, call.code, call.data_files)
    /\ other.pc \in {"wait", "withexit"} =>
          /\ Read(fs[other.ws], "user_code.py") = wrap_code(code_executor, other.code, <<>>)
          /\ \A path \in DOMAIN fs[other.ws].files \ {"user_code.py", "output"} :
                /\ path \in DOMAIN other.files
                /\ other.files[path] = fs[other.ws].files[path]
    /\ (other.pc = "withexit" /\ other.proc.st = "exited") =>
          other.pending = CollectOutcome(other.proc, OwnResult)

\* C13: two calls on the same executor, one after the other or interleaved,
\* never hold the same workspace; a workspace is empty when a call gets it; the
\* program file and every other file in a call's workspace are the call's own;
\* no step of one call changes the workspace of the other; and the outcome a
\* call collects is the one its own program's files give.
C13_Isolation ==
    /\ []C13_Safety
    /\ [][(pc = "mkdtemp" /\ pc' = "wrap") => fs'[ws'] = EmptyDir]_vars
    /\ [][(other' # other /\ Live) => fs'[ws] = fs[ws]]_vars
    /\ [][(other' = other /\ OtherLive) => fs'[other.ws] = fs[other.ws]]_vars

\* Both calls are about to leave their with blocks, each with a result file
\* of its own in its workspace.
C13_Witness ==
    /\ pc = "withexit" /\ other.pc = "withexit"
    /\ ws # other.ws
    /\ Read(fs[ws], ResultFile(code_executor)) # Absent
    /\ Read(fs[other.ws], ResultFile(code_executor)) # Absent
    /\ Read(fs[ws], ResultFile(code_executor)) # Read(fs[other.ws], ResultFile(code_executor))

----------------------------------------------------------------------------
(* The result envelope the generated program leaves *)

\* The result mapping the program has written, where it has written one
ResultWritten ==
    /\ ws # 0 /\ fs[ws].exists
    /\ EnvelopeFile.fmt = "json"
    /\ "__error" \notin DOMAIN EnvelopeFile.doc

\* Names the wrapper binds for itself
WrapperNames ==
    {"sys", "os", "builtins", "matplotlib", "dangerous_modules", "module",
     "safe_builtins", "name", "var_name", "var_value", "fig_nums", "plots", "i", "num"}

\* C21: the result mapping the generated program writes has no key that starts
\* with '_', none that is an imported library handle and none that is a
\* variable of the wrapper itself (hardening lists and loop variables, the
\* capture loop's var_name and var_value).
C21_OnlyUserVariables ==
    ResultWritten =>
        \A n \in DOMAIN EnvelopeFile.doc :
            /\ ~StartsWith(n, "_")
            /\ n \notin {"pd", "np", "plt", "json", "matplotlib"}
            /\ n \notin WrapperNames

\* C22: every value of the envelope is bounded in size on both backends: a
\* dataframe carries at most 1000 records while its shape gives the rows of
\* the whole frame, and a list or dict is there only when its text is shorter
\* than 10000 characters.
C22_SizeBounded ==
    ResultWritten =>
        \A n \in DOMAIN EnvelopeFile.doc :
            LET c == EnvelopeFile.doc[n]
            IN  /\ c.type = "dataframe" => (c.records <= RowBound /\ c.shape = Csv.rows)
                /\ c.type \in {"list", "dict"} => c.chars < CharBound

\* The image files in the workspace of the call
PlotFiles == { path \in DOMAIN fs[ws].files : fs[ws].files[path] = Png }

\* C23: with n figures open when the user code ends, the program saves
\* min(n, 5) images, in figure order, and lists exactly the saved names, in
\* order, under the plots key of the envelope; with n = 0 there is no plots key.
C23_PlotsSavedAndListed ==
    (ResultWritten /\ prog # NoProg /\ prog.ppc = "done") =>
        LET doc == EnvelopeFile.doc
            saved == IF prog.figs > PlotBound THEN PlotBound ELSE prog.figs
        IN  /\ Cardinality(PlotFiles) = saved
            /\ IF prog.figs = 0
               THEN "__plots" \notin DOMAIN doc
               ELSE /\ "__plots" \in DOMAIN doc
                    /\ Len(doc["__plots"].data) = saved
                    /\ \A i \in 1..saved :
                          /\ HostPath(code_executor, doc["__plots"].data[i]).rel \in PlotFiles
                          /\ EndsWith(doc["__plots"].data[i], "_" \o ToString(i - 1) \o ".png")

\* The guarded block of the program has raised and the program has ended
GuardRaised == prog # NoProg /\ prog.ppc = "done" /\ prog.exc # ""

\* C24: whenever the guarded block raises, the output file the program leaves
\* holds the error key alone, with message and traceback, and no captured
\* variable, and the program ends with a non-zero status.
C24_ErrorEnvelopeAlone ==
    (GuardRaised /\ ws # 0 /\ fs[ws].exists) =>
        /\ EnvelopeFile = ErrorEnvelope(prog.exc)
        /\ prog.rc # 0

----------------------------------------------------------------------------
(* How the sandbox is started *)

\* A container started by the call in progress is running
Launched == code_executor = "docker" /\ container = "running"

ReadWrite(volumes) == { k \in 1..Len(volumes) : volumes[k].mode = "rw" }

C25_Options ==
    Launched =>
        /\ launch.by = "docker run"
        /\ launch.rm
        /\ launch.network = "none"
        /\ launch.read_only
        /\ launch.cap_drop = "ALL"
        /\ launch.security_opt = "no-new-privileges"
        /\ launch.memory = "512m" /\ launch.cpus = "0.5"
        /\ \A k \in ReadWrite(launch.volumes) :
              /\ launch.volumes[k].host = TempPath(ws) \o "/output"
              /\ launch.volumes[k].at = "/sandbox/output"
        /\ Cardinality(ReadWrite(launch.volumes)) = 1
        /\ \E k \in 1..Len(launch.volumes) :
              /\ launch.volumes[k].host = TempPath(ws)
              /\ launch.volumes[k].at = "/sandbox/workspace"
              /\ launch.volumes[k].mode = "ro"
        /\ launch.argv = "/sandbox/workspace/user_code.py"

\* C25: every container execute_code starts runs without network, with a
\* read-only root file system, all capabilities dropped, no-new-privileges,
\* the configured memory and CPU caps and automatic removal; its only
\* read-write mount is the output directory, which is there on the host when
\* the container is started, and the workspace with the program and the data
\* is mounted read-only.
C25_ContainerOptions ==
    /\ []C25_Options
    /\ [][(container # "running" /\ container' = "running") =>
              (/\ ws # 0 /\ fs[ws].exists
               /\ Read(fs[ws], "output") = Dir
               /\ Read(fs[ws], "user_code.py") # Absent)]_vars

\* The container runs the user's statements
C25_Witness ==
    /\ Launched
    /\ prog.ppc = "user"
    /\ launch = DockerCmd(TempPath(ws))
    /\ Read(fs[ws], "output") = Dir

\* The generated program has been started in the child
ChildStarted == vout # Nothing /\ vout.tag = "child" /\ vout.at \in {"running", "exited"}

MiB == 1024 * 1024

C26_Limits ==
    ChildStarted =>
        /\ vout.limits.RLIMIT_AS = <<vin.memory_limit_mb * MiB, vin.memory_limit_mb * MiB>>
        /\ vout.limits.RLIMIT_CPU = <<vin.timeout + 5, vin.timeout + 5>>
        /\ vout.limits.RLIMIT_CPU[1] > vin.timeout
        /\ vout.limits.RLIMIT_NPROC = <<1, 1>>
        /\ vout.limits.RLIMIT_FSIZE = <<10 * MiB, 10 * MiB>>
        /\ vout.limits.RLIMIT_CORE = <<0, 0>>
        /\ \A res \in DOMAIN vout.limits : vout.limits[res][1] = vout.limits[res][2]

\* C26: for every configured timeout and memory limit the child has its limits
\* set before the generated program starts, and they are never relaxed:
\* address space memory_limit_mb MiB, CPU time timeout + 5 seconds (above the
\* wall-clock timeout), one process, 10 MiB of file size, no core dump, each
\* soft limit equal to its hard limit.
C26_ResourceLimits ==
    /\ []C26_Limits
    /\ [][ChildStarted => vout'.limits = vout.limits]_vars

C26_Witness ==
    /\ ChildStarted /\ vout.at = "exited"
    /\ vin.timeout = 300 /\ vin.memory_limit_mb = 1024
    /\ vout.limits.RLIMIT_AS[1] = 1073741824
    /\ vout.limits.RLIMIT_CPU[2] = 305

EnvNames ==
    {"PATH", "PYTHONPATH", "HOME", "TMPDIR", "PYTHONDONTWRITEBYTECODE",
     "PYTHONUNBUFFERED", "PYTHONHOME"}

SamePythonHome(e1, e2) ==
    /\ ("PYTHONHOME" \in DOMAIN e1) = ("PYTHONHOME" \in DOMAIN e2)
    /\ "PYTHONHOME" \in DOMAIN e1 => e1["PYTHONHOME"] = e2["PYTHONHOME"]

\* C27: the environment of the child depends on the environment of the service
\* through PYTHONHOME alone: two services whose environments agree on
\* PYTHONHOME give their children the same environment, and the names in it
\* are among PATH, PYTHONPATH, HOME, TMPDIR, PYTHONDONTWRITEBYTECODE,
\* PYTHONUNBUFFERED and PYTHONHOME.
C27_ScrubbedEnvironment ==
    ChildStarted =>
        /\ DOMAIN vout.env \subseteq EnvNames
        /\ SamePythonHome(vin.os_environ, vin.twin_environ) => vout.env = vout.twin

\* Two services that differ in a credential and in PATH but share PYTHONHOME
C27_Witness ==
    /\ ChildStarted
    /\ vin.os_environ # vin.twin_environ
    /\ "AWS_SECRET_ACCESS_KEY" \in DOMAIN vin.os_environ
    /\ "AWS_SECRET_ACCESS_KEY" \notin DOMAIN vin.twin_environ
    /\ "PYTHONHOME" \in DOMAIN vin.os_environ
    /\ SamePythonHome(vin.os_environ, vin.twin_environ)
    /\ vout.env = vout.twin
    /\ vout.env["PYTHONHOME"] = "/opt/py"

----------------------------------------------------------------------------
(* What a successful return may carry *)

\* C28: execute_code returns success = True only if the program exited with
\* status 0 before the timeout, and a result mapping returned with
\* success = True never has the reserved error key.
C28_NoErrorInSuccess ==
    (Returned /\ Len(returns) = 1 /\ returns[1].success) =>
        /\ proc.st = "exited" /\ proc.rc = 0
        /\ returns[1].data # None => "__error" \notin DOMAIN returns[1].data

----------------------------------------------------------------------------
(* The bindings execute_code_internal makes from the files of a project *)

InternalCall == call.via = "internal"

InChars(c, chars) == \E k \in 1..Len(chars) : SubSeq(chars, k, k) = c
IdentStart == LowerChars \o UpperChars \o "_"
IdentChars == IdentStart \o "0123456789"
Keywords == {"and", "as", "class", "def", "del", "for", "from", "if", "import", "in",
             "is", "not", "or", "pass", "try", "with"}

\* A name Python accepts as the target of an assignment
IsIdentifier(s) ==
    /\ Len(s) > 0
    /\ InChars(SubSeq(s, 1, 1), IdentStart)
    /\ \A k \in 1..Len(s) : InChars(SubSeq(s, k, k), IdentChars)
    /\ s \notin Keywords

\* The text is the one statement `name = pd.<reader>('<path>')`
SingleAssignment(text, name) ==
    /\ IsIdentifier(name)
    /\ \E reader \in {"read_csv", "read_excel"} :
       \E n \in 0..Len(text) :
          LET path == SubSeq(text, Len(name \o " = pd." \o reader \o "('") + 1, n)
          IN  /\ text = name \o " = pd." \o reader \o "('" \o path \o "')"
              /\ ~Contains(path, "'")
              /\ ~Contains(path, "\\")
              /\ ~Contains(path, "\n")

\* C29: every dataset name execute_code_internal puts in the bindings is a
\* valid variable name, whatever the original file name, and the load
\* statement either wrapper makes from the binding is a single assignment to
\* that name and nothing else.
C29_IdentifierSafeNames ==
    InternalCall =>
        \A k \in 1..Len(call.data_files) :
            /\ IsIdentifier(call.data_files[k].name)
            /\ \A b \in {"docker", "subprocess"} :
                 LET loads == wrap_code(b, call.code, <<call.data_files[k]>>).loads
                 IN  \A j \in 1..Len(loads) :
                        SingleAssignment(LoadText(loads[j]), call.data_files[k].name)

\* The file the active backend opens for a binding: CodeExecutor copies
\* uploads_dir / file_path, resolved in the directory of the service;
\* SubprocessExecutor has the child read the same joined path, resolved in the
\* directory of the child.
BackendFile(b, file_path) ==
    LET src_path == PathJoin(UploadsDir, file_path)
    IN  IF b = "docker"
        THEN IF UploadKey(src_path) \in DOMAIN uploads
             THEN [root |-> "uploads", rel |-> UploadKey(src_path)]
             ELSE [root |-> "none", rel |-> src_path]
        ELSE LET hp == HostPath(b, src_path)
             IN  [root |-> hp.root, rel |-> hp.rel]

\* A binding that the check of execute_code_internal lets through
Checked(d) == PathExists(d.path, uploads)

\* C30: for every binding execute_code_internal passes, the path the backend
\* copies or loads from denotes the same existing file as the path that was
\* checked, and a program that loads such a binding finds its file.
C30_PathsAgree ==
    /\ InternalCall =>
          \A k \in 1..Len(call.data_files) :
              /\ Checked(call.data_files[k])
              /\ BackendFile(code_executor, call.data_files[k].path)
                    = [root |-> "uploads", rel |-> UploadKey(call.data_files[k].path)]
    /\ (Direct /\ Ran /\ \A k \in 1..Len(call.data_files) : Checked(call.data_files[k]))
          => ~Contains(prog.err, "FileNotFoundError")

====
